---- MODULE Spec2Model ----
(***************************************************************************)
(* Model of src/window/window_wrapper/keyboard_manager.rs: KeyboardManager *)
(* buffers the key events of a frame, tracks the modifier state, and at    *)
(* MainEventsCleared turns the buffered key presses into keybinding        *)
(* strings that it sends to the command channel.                           *)
(*                                                                         *)
(* A string (&str / String) is a sequence of one-character strings, so     *)
(* "<C-a>" is <<"<", "C", "-", "a", ">">>.  An Option is a sequence of     *)
(* length 0 (None) or 1 (Some).                                            *)
(***************************************************************************)
EXTENDS Integers, Sequences, FiniteSets

VARIABLES
    windows,                  \* cfg(target_os = "windows") of the build
    ctrl, alt, logo,          \* KeyboardManager.ctrl / alt / logo
    ignore_input_this_frame,  \* KeyboardManager.ignore_input_this_frame
    queued_key_events,        \* KeyboardManager.queued_key_events
    sent,                     \* UiCommand::Keyboard strings the channel took, oldest first
    receiver_alive,           \* the channel's receiving end still exists
    panicked,                 \* an .expect() on a failed send has fired
    \* history variables (never read by the handlers' program state updates)
    focus_gained,             \* a Focused(true) arrived since the last MainEventsCleared
    last_focus,               \* Option<bool>: the last Focused value since then
    last_snapshot,            \* the last ModifiersChanged snapshot (all false at first)
    mods_changed,             \* a ModifiersChanged changed a modifier while keys were queued
    queued_at_focus,          \* key events buffered when the frame's last observed Focused came
    frame                     \* Option: what the last MainEventsCleared saw and did

vars == <<windows, ctrl, alt, logo, ignore_input_this_frame, queued_key_events,
          sent, receiver_alive, panicked, focus_gained, last_focus,
          last_snapshot, mods_changed, queued_at_focus, frame>>

\* the fields of KeyboardManager and what its channel has delivered
prog == <<ctrl, alt, logo, ignore_input_this_frame, queued_key_events, sent>>

----------------------------------------------------------------------------
\* Bounds of the model

MaxQueue == 2        \* key events buffered in one frame
MaxSent == 2         \* commands delivered over a run

----------------------------------------------------------------------------
\* Values

None == <<>>
Some(x) == <<x>>

ControlKeys ==
    {"Backspace", "Escape", "Delete", "ArrowUp", "ArrowDown", "ArrowLeft",
     "ArrowRight", "F1", "F2", "F3", "F4", "F5", "F6", "F7", "F8", "F9", "F10",
     "F11", "F12", "Insert", "Home", "End", "PageUp", "PageDown"}

KeyEvent(st, key, txt) == [state |-> st, logical_key |-> key, text |-> txt]

\* resolved texts (text_with_all_modifiers) the model draws from
PlainTexts == {<<"a">>, <<"x">>, <<"a", " ">>}
SpecialTexts == {<<" ">>, <<"<">>, <<"\\">>, <<"|">>, <<"\t">>, <<"\n">>}

\* the key events of the formatting specification: every control key, with
\* and without a resolved text, and the other keys with every text
AllKeyEvents ==
    {KeyEvent(st, k, t) : st \in {"Pressed", "Released"}, k \in ControlKeys,
                          t \in {None, Some(<<" ">>), Some(<<"a">>)}}
    \cup {KeyEvent(st, "Character", Some(t)) : st \in {"Pressed", "Released"},
                                               t \in PlainTexts \cup SpecialTexts}
    \cup {KeyEvent(st, "Dead", None) : st \in {"Pressed", "Released"}}

Snapshot(c, a, l) == [ctrl |-> c, alt |-> a, logo |-> l]

\* every modifier snapshot
AllSnapshots == {Snapshot(c, a, l) : c \in BOOLEAN, a \in BOOLEAN, l \in BOOLEAN}

\* the snapshots of the event-loop specification
FrameSnapshots ==
    {Snapshot(FALSE, FALSE, FALSE), Snapshot(TRUE, FALSE, FALSE),
     Snapshot(FALSE, TRUE, TRUE)}

\* the key events of the event-loop specification
FrameKeyEvents ==
    {KeyEvent("Pressed", "Escape", None),
     KeyEvent("Pressed", "Character", Some(<<"a">>)),
     KeyEvent("Released", "Character", Some(<<"a">>)),
     KeyEvent("Pressed", "Dead", None)}

----------------------------------------------------------------------------
\* Free functions

use_logo(l) == IF windows THEN FALSE ELSE l

or_empty(condition, text) == IF condition THEN text ELSE <<>>

is_control_key(key) ==
    CASE key = "Backspace"  -> Some(<<"B", "S">>)
      [] key = "Escape"     -> Some(<<"E", "s", "c">>)
      [] key = "Delete"     -> Some(<<"D", "e", "l">>)
      [] key = "ArrowUp"    -> Some(<<"U", "p">>)
      [] key = "ArrowDown"  -> Some(<<"D", "o", "w", "n">>)
      [] key = "ArrowLeft"  -> Some(<<"L", "e", "f", "t">>)
      [] key = "ArrowRight" -> Some(<<"R", "i", "g", "h", "t">>)
      [] key = "F1"         -> Some(<<"F", "1">>)
      [] key = "F2"         -> Some(<<"F", "2">>)
      [] key = "F3"         -> Some(<<"F", "3">>)
      [] key = "F4"         -> Some(<<"F", "4">>)
      [] key = "F5"         -> Some(<<"F", "5">>)
      [] key = "F6"         -> Some(<<"F", "6">>)
      [] key = "F7"         -> Some(<<"F", "7">>)
      [] key = "F8"         -> Some(<<"F", "8">>)
      [] key = "F9"         -> Some(<<"F", "9">>)
      [] key = "F10"        -> Some(<<"F", "1", "0">>)
      [] key = "F11"        -> Some(<<"F", "1", "1">>)
      [] key = "F12"        -> Some(<<"F", "1", "2">>)
      [] key = "Insert"     -> Some(<<"I", "n", "s", "e", "r", "t">>)
      [] key = "Home"       -> Some(<<"H", "o", "m", "e">>)
      [] key = "End"        -> Some(<<"E", "n", "d">>)
      [] key = "PageUp"     -> Some(<<"P", "a", "g", "e", "U", "p">>)
      [] key = "PageDown"   -> Some(<<"P", "a", "g", "e", "D", "o", "w", "n">>)
      [] OTHER              -> None

\* is_special without its arm for "|"
is_special_without_bar(text) ==
    CASE text = <<" ">>  -> Some(<<"S", "p", "a", "c", "e">>)
      [] text = <<"<">>  -> Some(<<"l", "t">>)
      [] text = <<"\\">> -> Some(<<"B", "s", "l", "a", "s", "h">>)
      [] text = <<"\t">> -> Some(<<"T", "a", "b">>)
      [] text = <<"\n">> -> Some(<<"C", "R">>)
      [] OTHER           -> None

is_special(text) ==
    CASE text = <<" ">>  -> Some(<<"S", "p", "a", "c", "e">>)
      [] text = <<"<">>  -> Some(<<"l", "t">>)
      [] text = <<"\\">> -> Some(<<"B", "s", "l", "a", "s", "h">>)
      [] text = <<"|">>  -> Some(<<"B", "a", "r">>)
      [] text = <<"\t">> -> Some(<<"T", "a", "b">>)
      [] text = <<"\n">> -> Some(<<"C", "R">>)
      [] OTHER           -> None

----------------------------------------------------------------------------
\* KeyboardManager

Init ==
    /\ windows \in BOOLEAN
    /\ ctrl = FALSE
    /\ alt = FALSE
    /\ logo = FALSE
    /\ ignore_input_this_frame = FALSE
    /\ queued_key_events = <<>>
    /\ sent = <<>>
    /\ receiver_alive = TRUE
    /\ panicked = FALSE
    /\ focus_gained = FALSE
    /\ last_focus = None
    /\ last_snapshot = Snapshot(FALSE, FALSE, FALSE)
    /\ mods_changed = FALSE
    /\ queued_at_focus = 0
    /\ frame = None

\* format_keybinding_string with the wrapping decided on the masked logo state
format_masked_wrap(special, text) ==
    LET special2 == special \/ ctrl \/ alt \/ use_logo(logo)
        open  == or_empty(special2, <<"<">>)
        c     == or_empty(ctrl, <<"C", "-">>)
        a     == or_empty(alt, <<"M", "-">>)
        l     == or_empty(use_logo(logo), <<"D", "-">>)
        close == or_empty(special2, <<">">>)
    IN  open \o c \o a \o l \o text \o close

\* format_keybinding_string with the alt fragment put before the ctrl fragment
format_alt_first(special, text) ==
    LET special2 == special \/ ctrl \/ alt \/ logo
        open  == or_empty(special2, <<"<">>)
        c     == or_empty(ctrl, <<"C", "-">>)
        a     == or_empty(alt, <<"M", "-">>)
        l     == or_empty(use_logo(logo), <<"D", "-">>)
        close == or_empty(special2, <<">">>)
    IN  open \o a \o c \o l \o text \o close

format_keybinding_string(special, text) ==
    LET special2 == special \/ ctrl \/ alt \/ logo
        open  == or_empty(special2, <<"<">>)
        c     == or_empty(ctrl, <<"C", "-">>)
        a     == or_empty(alt, <<"M", "-">>)
        l     == or_empty(use_logo(logo), <<"D", "-">>)
        close == or_empty(special2, <<">">>)
    IN  open \o c \o a \o l \o text \o close

\* the control-key arm with the forced wrapping left out
control_key_string_unforced(key_text) == format_keybinding_string(FALSE, key_text)

\* the control-key arm of the loop body: the string sent for a control key
control_key_string(key_text) == format_keybinding_string(TRUE, key_text)

\* the text arm with every text wrapped, special or not
text_key_string_always_special(key_text) ==
    IF is_special(key_text) # None
    THEN format_keybinding_string(TRUE, is_special(key_text)[1])
    ELSE format_keybinding_string(TRUE, key_text)

\* the text arm of the loop body: the string sent for a resolved text
text_key_string(key_text) ==
    IF is_special(key_text) # None
    THEN format_keybinding_string(TRUE, is_special(key_text)[1])
    ELSE format_keybinding_string(FALSE, key_text)

\* the loop body without the test of the key event's state
key_event_command_any_state(key_event) ==
    IF is_control_key(key_event.logical_key) # None
    THEN Some(control_key_string(is_control_key(key_event.logical_key)[1]))
    ELSE IF key_event.text # None
         THEN Some(text_key_string(key_event.text[1]))
         ELSE None

\* the loop body with the resolved text looked at before the control table
key_event_command_text_first(key_event) ==
    IF key_event.state = "Pressed"
    THEN IF key_event.text # None
         THEN Some(text_key_string(key_event.text[1]))
         ELSE IF is_control_key(key_event.logical_key) # None
              THEN Some(control_key_string(is_control_key(key_event.logical_key)[1]))
              ELSE None
    ELSE None

\* the loop body: Option of the command one buffered key event sends
key_event_command(key_event) ==
    IF key_event.state = "Pressed"
    THEN IF is_control_key(key_event.logical_key) # None
         THEN Some(control_key_string(is_control_key(key_event.logical_key)[1]))
         ELSE IF key_event.text # None
              THEN Some(text_key_string(key_event.text[1]))
              ELSE None
    ELSE None

\* the strings of a sequence of Options, in order
RECURSIVE Flatten(_)
Flatten(opts) ==
    IF opts = <<>> THEN <<>> ELSE Head(opts) \o Flatten(Tail(opts))

Reverse(s) == [i \in 1..Len(s) |-> s[Len(s) + 1 - i]]

\* what each iteration of the for loop sends, by position in the buffer
loop_sends(events) == [i \in 1..Len(events) |-> key_event_command(events[i])]

\* the for loop, walking the buffer from its newest event to its oldest
drain_newest_first(events) == Flatten(Reverse(loop_sends(events)))

\* the for loop over queued_key_events.iter(): the commands it sends, in order
drain(events) == Flatten(loop_sends(events))

\* an ignored frame skips only the key events that came after the Focused
frame_commands_after_focus_only ==
    IF ~ignore_input_this_frame
    THEN drain(queued_key_events)
    ELSE drain(SubSeq(queued_key_events, 1, queued_at_focus))

\* the commands MainEventsCleared sends: none in a frame that is ignored
frame_commands ==
    IF ~ignore_input_this_frame THEN drain(queued_key_events) ELSE <<>>

\* the buffer is left as it was: the call of clear() is missing
queue_not_cleared == queued_key_events

\* the buffer is cleared only in a frame that was not ignored
queue_kept_when_ignored ==
    IF ignore_input_this_frame THEN queued_key_events ELSE <<>>

\* queued_key_events after queued_key_events.clear()
queue_after_clear == <<>>

\* Focused(true) sets the flag and Focused(false) leaves it as it is
Focused_sticky(focused) ==
    /\ ~panicked
    /\ ignore_input_this_frame' = (ignore_input_this_frame \/ focused)
    /\ focus_gained' = (focus_gained \/ focused)
    /\ last_focus' = Some(focused)
    /\ UNCHANGED <<windows, ctrl, alt, logo, queued_key_events, sent,
                   receiver_alive, panicked, last_snapshot, mods_changed,
                   queued_at_focus>>
    /\ frame' = None

\* handle_event, WindowEvent::Focused(focused)
Focused(focused) ==
    /\ ~panicked
    /\ ignore_input_this_frame' = focused
    /\ focus_gained' = (focus_gained \/ focused)
    /\ last_focus' = Some(focused)
    /\ UNCHANGED <<windows, ctrl, alt, logo, queued_key_events, sent,
                   receiver_alive, panicked, last_snapshot, mods_changed,
                   queued_at_focus>>
    /\ frame' = None

\* the key event is formatted and sent when it arrives, not buffered
KeyboardInput_eager(key_event) ==
    /\ ~panicked
    /\ sent' = sent \o key_event_command(key_event)
    /\ UNCHANGED <<windows, ctrl, alt, logo, ignore_input_this_frame,
                   queued_key_events, receiver_alive, panicked, focus_gained,
                   last_focus, last_snapshot, mods_changed, queued_at_focus>>
    /\ frame' = None

\* only key presses are buffered
KeyboardInput_pressed_only(key_event) ==
    /\ ~panicked
    /\ queued_key_events' =
          IF key_event.state = "Pressed"
          THEN Append(queued_key_events, key_event)
          ELSE queued_key_events
    /\ UNCHANGED <<windows, ctrl, alt, logo, ignore_input_this_frame, sent,
                   receiver_alive, panicked, focus_gained, last_focus,
                   last_snapshot, mods_changed, queued_at_focus>>
    /\ frame' = None

\* handle_event, WindowEvent::Focused(focused), with the length of the buffer
\* at its arrival kept in the history
FocusedObserved(focused) ==
    /\ ~panicked
    /\ ignore_input_this_frame' = focused
    /\ focus_gained' = (focus_gained \/ focused)
    /\ last_focus' = Some(focused)
    /\ queued_at_focus' = Len(queued_key_events)
    /\ UNCHANGED <<windows, ctrl, alt, logo, queued_key_events, sent,
                   receiver_alive, panicked, last_snapshot, mods_changed>>
    /\ frame' = None

\* handle_event, WindowEvent::KeyboardInput { event: key_event, .. }
KeyboardInput(key_event) ==
    /\ ~panicked
    /\ queued_key_events' = Append(queued_key_events, key_event)
    /\ UNCHANGED <<windows, ctrl, alt, logo, ignore_input_this_frame, sent,
                   receiver_alive, panicked, focus_gained, last_focus,
                   last_snapshot, mods_changed, queued_at_focus>>
    /\ frame' = None

\* a snapshot that arrives while key events are buffered is not stored
ModifiersChanged_latched(modifiers) ==
    /\ ~panicked
    /\ IF queued_key_events = <<>>
       THEN /\ ctrl' = modifiers.ctrl
            /\ alt' = modifiers.alt
            /\ logo' = modifiers.logo
       ELSE UNCHANGED <<ctrl, alt, logo>>
    /\ last_snapshot' = modifiers
    /\ mods_changed' =
          (mods_changed \/ (queued_key_events # <<>> /\ modifiers # last_snapshot))
    /\ UNCHANGED <<windows, ignore_input_this_frame, queued_key_events, sent,
                   receiver_alive, panicked, focus_gained, last_focus,
                   queued_at_focus>>
    /\ frame' = None

\* handle_event, WindowEvent::ModifiersChanged(modifiers)
ModifiersChanged(modifiers) ==
    /\ ~panicked
    /\ ctrl' = modifiers.ctrl
    /\ alt' = modifiers.alt
    /\ logo' = modifiers.logo
    /\ last_snapshot' = modifiers
    /\ mods_changed' =
          (mods_changed \/ (queued_key_events # <<>> /\ modifiers # last_snapshot))
    /\ UNCHANGED <<windows, ignore_input_this_frame, queued_key_events, sent,
                   receiver_alive, panicked, focus_gained, last_focus,
                   queued_at_focus>>
    /\ frame' = None

\* the Err that send returns is dropped instead of handed to .expect()
send_error_dropped == FALSE

\* .send(..) of the frame's first command returns Err: the receiver is gone
first_send_fails == frame_commands # <<>> /\ ~receiver_alive

\* handle_event, Event::MainEventsCleared.  A send to a channel whose receiver
\* is gone returns Err and .expect() panics before the flag and the buffer are
\* reset; the receiver may go away before the frame or between two sends, so
\* the panic comes after `delivered` commands of the frame were taken.
MainEventsCleared ==
    /\ ~panicked
    /\ \E delivered \in 0..Len(frame_commands) :
          IF delivered < Len(frame_commands)
          THEN /\ IF delivered = 0 THEN first_send_fails ELSE receiver_alive
               /\ panicked' = TRUE
               /\ receiver_alive' = FALSE
               /\ sent' = sent \o SubSeq(frame_commands, 1, delivered)
               /\ frame' = None
               /\ UNCHANGED <<ignore_input_this_frame, queued_key_events,
                              focus_gained, last_focus, mods_changed,
                              queued_at_focus>>
          ELSE /\ ~first_send_fails
               /\ sent' = sent \o (IF receiver_alive THEN frame_commands ELSE <<>>)
               /\ ignore_input_this_frame' = FALSE
               /\ queued_key_events' = queue_after_clear
               /\ frame' = Some([buffer |-> queued_key_events,
                                 ignored |-> ignore_input_this_frame,
                                 gained |-> focus_gained,
                                 last_focus |-> last_focus,
                                 mods_changed |-> mods_changed,
                                 queued_at_focus |-> queued_at_focus,
                                 sent_before |-> sent,
                                 per_event |->
                                     IF ignore_input_this_frame
                                     THEN [i \in 1..Len(queued_key_events) |-> None]
                                     ELSE loop_sends(queued_key_events)])
               /\ focus_gained' = FALSE
               /\ last_focus' = None
               /\ mods_changed' = FALSE
               /\ queued_at_focus' = 0
               /\ UNCHANGED <<panicked, receiver_alive>>
    /\ UNCHANGED <<windows, ctrl, alt, logo, last_snapshot>>

\* handle_event, the arm `_ => {}`
OtherEvent ==
    /\ ~panicked
    /\ frame' = None
    /\ UNCHANGED <<windows, ctrl, alt, logo, ignore_input_this_frame,
                   queued_key_events, sent, receiver_alive, panicked,
                   focus_gained, last_focus, last_snapshot, mods_changed,
                   queued_at_focus>>

\* the receiving end of the command channel goes away
ReceiverDropped ==
    /\ ~panicked
    /\ receiver_alive
    /\ receiver_alive' = FALSE
    /\ UNCHANGED <<windows, ctrl, alt, logo, ignore_input_this_frame,
                   queued_key_events, sent, panicked, focus_gained,
                   last_focus, last_snapshot, mods_changed, queued_at_focus,
                   frame>>

Next ==
    \/ \E focused \in BOOLEAN : Focused(focused)
    \/ \E key_event \in FrameKeyEvents :
          Len(queued_key_events) < MaxQueue /\ KeyboardInput(key_event)
    \/ \E modifiers \in FrameSnapshots : ModifiersChanged(modifiers)
    \/ Len(sent) + Len(queued_key_events) <= MaxSent /\ MainEventsCleared
    \/ OtherEvent
    \/ ReceiverDropped

Spec == Init /\ [][Next]_vars

\* The event loop with the arrival of each Focused event among the key events
\* of its frame kept in the history.
NextOrder ==
    \/ \E focused \in BOOLEAN : FocusedObserved(focused)
    \/ \E key_event \in FrameKeyEvents :
          Len(queued_key_events) < MaxQueue /\ KeyboardInput(key_event)
    \/ \E modifiers \in FrameSnapshots : ModifiersChanged(modifiers)
    \/ Len(sent) + Len(queued_key_events) <= MaxSent /\ MainEventsCleared
    \/ OtherEvent
    \/ ReceiverDropped

SpecOrder == Init /\ [][NextOrder]_vars

----------------------------------------------------------------------------
\* Formatting specification: one buffered key event of any kind, under any
\* modifier snapshot, on either platform, handed to MainEventsCleared.

InitFormat ==
    /\ windows \in BOOLEAN
    /\ \E modifiers \in AllSnapshots :
          /\ ctrl = modifiers.ctrl
          /\ alt = modifiers.alt
          /\ logo = modifiers.logo
          /\ last_snapshot = modifiers
    /\ ignore_input_this_frame = FALSE
    /\ \E key_event \in AllKeyEvents : queued_key_events = <<key_event>>
    /\ sent = <<>>
    /\ receiver_alive = TRUE
    /\ panicked = FALSE
    /\ focus_gained = FALSE
    /\ last_focus = None
    /\ mods_changed = FALSE
    /\ queued_at_focus = 0
    /\ frame = None

NextFormat == MainEventsCleared

SpecFormat == InitFormat /\ [][NextFormat]_vars

----------------------------------------------------------------------------
\* Vocabulary of the properties

\* t occurs in s as a run of consecutive characters
Contains(s, t) ==
    \E k \in 0..(Len(s) - Len(t)) : SubSeq(s, k + 1, k + Len(t)) = t

IsWrapped(s) == Len(s) >= 2 /\ Head(s) = "<" /\ s[Len(s)] = ">"

\* s without its angle brackets, when it has them
Unwrapped(s) == IF IsWrapped(s) THEN SubSeq(s, 2, Len(s) - 1) ELSE s

\* the last event handled was a MainEventsCleared that ran to its end
AfterFrame == frame # None

\* the commands that MainEventsCleared delivered to the channel
FrameEmitted == SubSeq(sent, Len(frame[1].sent_before) + 1, Len(sent))

IsPressed(e) == e.state = "Pressed"
IsControl(e) == e.logical_key \in ControlKeys
HasText(e) == e.text # None
IsSpecialText(e) == HasText(e) /\ e.text[1] \in SpecialTexts

\* the key event is one whose string is wrapped whatever the modifiers are
Forced(e) == IsControl(e) \/ (~IsControl(e) /\ IsSpecialText(e))

\* the positions of the frame's buffer whose iteration sent a command
SendingPositions ==
    {i \in 1..Len(frame[1].buffer) : frame[1].per_event[i] # None}

\* the fragments the grammar allows for the modifiers now held
Fragments ==
    (IF ctrl THEN <<"C", "-">> ELSE <<>>)
    \o (IF alt THEN <<"M", "-">> ELSE <<>>)
    \o (IF logo /\ ~windows THEN <<"D", "-">> ELSE <<>>)

Esc == <<"<", "E", "s", "c", ">">>
PressA == KeyEvent("Pressed", "Character", Some(<<"a">>))
PressEscape == KeyEvent("Pressed", "Escape", None)

----------------------------------------------------------------------------
\* C1: a frame in which a Focused(true) arrived sends no command at its
\* MainEventsCleared, whatever key events it buffered, and the buffer is empty
\* right after that MainEventsCleared.
C1_GainedFrameSilent ==
    (AfterFrame /\ frame[1].gained) =>
        (FrameEmitted = <<>> /\ queued_key_events = <<>>)

\* C2: every string a MainEventsCleared sends carries the fragments and the
\* wrapping of the last ModifiersChanged snapshot received before it, also
\* when that snapshot arrived after the key event was buffered.
C2_FormattedWithLatestSnapshot ==
    (AfterFrame /\ ~frame[1].ignored) =>
        /\ FrameEmitted = Flatten(frame[1].per_event)
        /\ \A i \in SendingPositions :
              LET s == frame[1].per_event[i][1]
                  e == frame[1].buffer[i]
              IN  /\ Contains(s, <<"C", "-">>) <=> last_snapshot.ctrl
                  /\ Contains(s, <<"M", "-">>) <=> last_snapshot.alt
                  /\ Contains(s, <<"D", "-">>) <=> (last_snapshot.logo /\ ~windows)
                  /\ IsWrapped(s) <=>
                        (Forced(e) \/ last_snapshot.ctrl \/ last_snapshot.alt
                                   \/ last_snapshot.logo)

C2_Witness ==
    /\ AfterFrame
    /\ frame[1].mods_changed
    /\ ~frame[1].ignored
    /\ frame[1].buffer = <<PressA>>
    /\ last_snapshot = Snapshot(TRUE, FALSE, FALSE)
    /\ FrameEmitted = << <<"<", "C", "-", "a", ">">> >>

\* C3: every MainEventsCleared that runs to its end leaves the flag false and
\* the buffer empty, sends nothing when the buffer was empty, and leaves the
\* state as it was when it follows another MainEventsCleared directly.
C3_FrameEndClearsBoth ==
    [][(frame' # None) =>
          /\ ~ignore_input_this_frame'
          /\ queued_key_events' = <<>>
          /\ (queued_key_events = <<>> => sent' = sent)
          /\ (frame # None => prog' = prog)]_vars

C3_Witness ==
    /\ AfterFrame
    /\ frame[1].ignored
    /\ frame[1].buffer # <<>>
    /\ ~ignore_input_this_frame
    /\ queued_key_events = <<>>

\* C4: at MainEventsCleared the flag is true exactly when a Focused(true)
\* arrived since the MainEventsCleared before.
C4_IgnoredIffGained ==
    AfterFrame => (frame[1].ignored <=> frame[1].gained)

\* C5: a MainEventsCleared that drains the buffer appends its commands after
\* everything sent in earlier frames, and in the arrival order of the key
\* events that sent them.
C5_SentInArrivalOrder ==
    (AfterFrame /\ ~frame[1].ignored) =>
        LET before == frame[1].sent_before
        IN  /\ Len(sent) = Len(before) + Cardinality(SendingPositions)
            /\ SubSeq(sent, 1, Len(before)) = before
            /\ \A i \in SendingPositions :
                  sent[Len(before) + Cardinality({j \in SendingPositions : j <= i})]
                      = frame[1].per_event[i][1]

C5_Witness ==
    /\ AfterFrame
    /\ ~frame[1].ignored
    /\ frame[1].buffer = <<PressEscape, PressA>>
    /\ ~ctrl /\ ~alt /\ ~logo
    /\ FrameEmitted = <<Esc, <<"a">> >>

\* C6: in a drained frame every pressed key event outside the control table
\* with a resolved text sends exactly one command, and every released key
\* event and every one outside the control table without text sends none.
C6_OneCommandPerResolvedPress ==
    (AfterFrame /\ ~frame[1].ignored) =>
        LET buf == frame[1].buffer
            one == {i \in 1..Len(buf) :
                       IsPressed(buf[i]) /\ ~IsControl(buf[i]) /\ HasText(buf[i])}
            zero == {i \in 1..Len(buf) :
                       ~IsPressed(buf[i]) \/ (~IsControl(buf[i]) /\ ~HasText(buf[i]))}
        IN  /\ FrameEmitted = Flatten(frame[1].per_event)
            /\ \A i \in one : Len(frame[1].per_event[i]) = 1
            /\ \A i \in zero : Len(frame[1].per_event[i]) = 0
            /\ Cardinality(one) <= Len(FrameEmitted)
            /\ Len(FrameEmitted) <= Len(buf) - Cardinality(zero)

C6_Witness ==
    /\ AfterFrame
    /\ ~frame[1].ignored
    /\ frame[1].buffer = <<KeyEvent("Released", "Character", Some(<<"a">>)), PressA>>
    /\ Len(FrameEmitted) = 1

\* C7: the string sent for a press of a key of the control table starts with
\* "<", ends with ">" and contains the key's token, under every modifier
\* snapshot; Escape without modifiers gives "<Esc>".
C7_ControlKeyWrapped ==
    (AfterFrame /\ Len(frame[1].buffer) = 1
       /\ IsPressed(frame[1].buffer[1]) /\ IsControl(frame[1].buffer[1])) =>
        /\ Len(FrameEmitted) = 1
        /\ LET s == FrameEmitted[1]
               key == frame[1].buffer[1].logical_key
           IN  /\ Head(s) = "<"
               /\ s[Len(s)] = ">"
               /\ Contains(s, is_control_key(key)[1])
               /\ (key = "Escape" /\ ~ctrl /\ ~alt /\ ~logo) => s = Esc

C7_Witness ==
    /\ AfterFrame
    /\ frame[1].buffer = <<PressEscape>>
    /\ ~ctrl /\ ~alt /\ ~logo
    /\ FrameEmitted = <<Esc>>

\* the token of the key event that sent a command
TokenOf(e) ==
    IF is_control_key(e.logical_key) # None THEN is_control_key(e.logical_key)[1]
    ELSE IF is_special(e.text[1]) # None THEN is_special(e.text[1])[1]
    ELSE e.text[1]

\* C8: in every string sent, what stands before the token is "C-" if ctrl is
\* held, then "M-" if alt is held, then "D-" if logo is held and the platform
\* shows it, and nothing else; ctrl+alt with ArrowLeft gives "<C-M-Left>".
C8_FragmentsInFixedOrder ==
    (AfterFrame /\ Len(FrameEmitted) = 1) =>
        LET s == FrameEmitted[1]
            e == frame[1].buffer[1]
        IN  /\ Unwrapped(s) = Fragments \o TokenOf(e)
            /\ (e.logical_key = "ArrowLeft" /\ ctrl /\ alt /\ ~logo) =>
                  s = <<"<", "C", "-", "M", "-", "L", "e", "f", "t", ">">>

C8_Witness ==
    /\ AfterFrame
    /\ frame[1].buffer = <<KeyEvent("Pressed", "ArrowLeft", None)>>
    /\ ctrl /\ alt /\ ~logo
    /\ FrameEmitted = << <<"<", "C", "-", "M", "-", "L", "e", "f", "t", ">">> >>

\* C9: on the platform that masks logo, with logo held and ctrl and alt not
\* held, a press of a key outside the control table whose text is not a
\* special literal sends the text alone, without "<" and ">".
C9_LogoOnlyUnwrappedOnWindows ==
    (AfterFrame /\ windows /\ logo /\ ~ctrl /\ ~alt
       /\ Len(frame[1].buffer) = 1
       /\ IsPressed(frame[1].buffer[1]) /\ ~IsControl(frame[1].buffer[1])
       /\ HasText(frame[1].buffer[1]) /\ ~IsSpecialText(frame[1].buffer[1])) =>
        FrameEmitted = <<frame[1].buffer[1].text[1]>>

CanonicalToken(text) ==
    CASE text = <<" ">>  -> <<"S", "p", "a", "c", "e">>
      [] text = <<"<">>  -> <<"l", "t">>
      [] text = <<"\\">> -> <<"B", "s", "l", "a", "s", "h">>
      [] text = <<"|">>  -> <<"B", "a", "r">>
      [] text = <<"\t">> -> <<"T", "a", "b">>
      [] text = <<"\n">> -> <<"C", "R">>

\* C11: a press of a key outside the control table whose text is exactly
\* space, "<", backslash, "|", tab or newline sends "<", the fragments, the
\* token Space, lt, Bslash, Bar, Tab or CR and ">", under every modifier
\* snapshot; space without modifiers gives "<Space>".
C11_SpecialLiteralToken ==
    (AfterFrame /\ Len(frame[1].buffer) = 1
       /\ IsPressed(frame[1].buffer[1]) /\ ~IsControl(frame[1].buffer[1])
       /\ IsSpecialText(frame[1].buffer[1])) =>
        /\ Len(FrameEmitted) = 1
        /\ FrameEmitted[1] =
              <<"<">> \o Fragments \o CanonicalToken(frame[1].buffer[1].text[1])
                      \o <<">">>

C11_Witness ==
    /\ AfterFrame
    /\ frame[1].buffer = <<KeyEvent("Pressed", "Character", Some(<<" ">>))>>
    /\ ~ctrl /\ ~alt /\ ~logo
    /\ FrameEmitted = << <<"<", "S", "p", "a", "c", "e", ">">> >>

\* C12: a send that fails during the drain of a frame ends the run at that
\* send: the commands of the frame delivered before it stay delivered, the
\* failed one and the ones after it are never delivered, the buffer is not
\* cleared as if they had been sent, and nothing is delivered afterwards.
C12_FailedSendIsFatal ==
    [][/\ ~receiver_alive => sent' = sent
       /\ (~receiver_alive /\ ~ignore_input_this_frame
             /\ drain(queued_key_events) # <<>>) => queued_key_events' # <<>>
       /\ (~panicked /\ panicked') =>
             /\ ~receiver_alive'
             /\ UNCHANGED queued_key_events
             /\ Len(sent') < Len(sent) + Len(drain(queued_key_events))
             /\ sent' = sent \o SubSeq(drain(queued_key_events), 1,
                                       Len(sent') - Len(sent))
       /\ panicked => (panicked' /\ sent' = sent)]_vars

C12_Witness ==
    /\ panicked
    /\ queued_key_events = <<PressEscape, PressA>>
    /\ ~ctrl /\ ~alt /\ ~logo
    /\ sent = <<Esc>>

C15_OnlyFrameBoundarySends ==
    [][/\ ((\E focused \in BOOLEAN : Focused(focused))
             \/ (\E key_event \in FrameKeyEvents : KeyboardInput(key_event))
             \/ (\E modifiers \in FrameSnapshots : ModifiersChanged(modifiers))
             \/ OtherEvent) => sent' = sent
       /\ sent' # sent => MainEventsCleared]_vars

C15_Witness ==
    /\ ~panicked
    /\ queued_key_events = <<PressA>>
    /\ last_focus = Some(FALSE)
    /\ mods_changed
    /\ ctrl
    /\ sent = <<>>

\* C16: Focused changes only the flag; KeyboardInput only appends its key
\* event, pressed or released, to the end of the buffer; ModifiersChanged only
\* overwrites ctrl, alt and logo; a MainEventsCleared, whether it runs to its
\* end or panics, leaves ctrl, alt and logo as they are; any other event
\* leaves every field as it is.
C16_EachEventItsOwnState ==
    [][/\ \A focused \in BOOLEAN :
             Focused(focused) =>
                /\ ignore_input_this_frame' = focused
                /\ UNCHANGED <<ctrl, alt, logo, queued_key_events, sent>>
       /\ \A key_event \in FrameKeyEvents :
             KeyboardInput(key_event) =>
                /\ queued_key_events' = queued_key_events \o <<key_event>>
                /\ UNCHANGED <<ctrl, alt, logo, ignore_input_this_frame, sent>>
       /\ \A modifiers \in FrameSnapshots :
             ModifiersChanged(modifiers) =>
                /\ <<ctrl', alt', logo'>> =
                      <<modifiers.ctrl, modifiers.alt, modifiers.logo>>
                /\ UNCHANGED <<ignore_input_this_frame, queued_key_events, sent>>
       /\ (frame' # None \/ panicked') => UNCHANGED <<ctrl, alt, logo>>
       /\ OtherEvent => UNCHANGED prog
       /\ <<ctrl', alt', logo'>> # <<ctrl, alt, logo>> =>
             \E modifiers \in FrameSnapshots : ModifiersChanged(modifiers)]_vars

C16_Witness ==
    /\ AfterFrame
    /\ alt /\ logo /\ ~ctrl
    /\ frame[1].buffer = <<KeyEvent("Released", "Character", Some(<<"a">>))>>
    /\ Len(frame[1].sent_before) = 1
    /\ Contains(frame[1].sent_before[1], <<"M", "-">>)
    /\ sent = frame[1].sent_before

\* C17: a frame whose last Focused event is Focused(true) sends nothing,
\* for the key events buffered before that Focused(true) as for the ones
\* buffered after it.
C17_WholeFrameSuppressed ==
    (AfterFrame /\ frame[1].last_focus = Some(TRUE)) =>
        /\ frame[1].ignored
        /\ sent = frame[1].sent_before
        /\ \A i \in 1..Len(frame[1].buffer) : frame[1].per_event[i] = None
        /\ queued_key_events = <<>>

C17_Witness ==
    /\ AfterFrame
    /\ frame[1].last_focus = Some(TRUE)
    /\ frame[1].queued_at_focus = 1
    /\ frame[1].buffer = <<PressEscape, PressA>>
    /\ sent = frame[1].sent_before
    /\ queued_key_events = <<>>

\* C18: a step delivers at most one command for each key event in the
\* buffer, and every step that delivers commands or ends a frame takes the
\* key events out of the buffer (or ends the run), so that no key event is
\* sent at a later MainEventsCleared, sent twice, or sent after the frame that
\* discarded it.
C18_EachKeyEventAtMostOnce ==
    [][/\ Len(sent') <= Len(sent) + Len(queued_key_events)
       /\ SubSeq(sent', 1, Len(sent)) = sent
       /\ sent' # sent => (queued_key_events' = <<>> \/ panicked')
       /\ (frame' # None /\ frame # frame') => queued_key_events' = <<>>
       /\ queued_key_events = <<>> => sent' = sent]_vars

C18_Witness ==
    /\ AfterFrame
    /\ frame[1].buffer = <<>>
    /\ frame[1].sent_before = <<Esc, <<"a">> >>
    /\ sent = frame[1].sent_before
    /\ queued_key_events = <<>>

\* C19: a press of a key of the control table sends exactly one string, "<",
\* the fragments, the key's token and ">", whether the key event has no
\* resolved text, a plain text or a special literal: the string is the one
\* sent for the same key without text, and the token of a special literal
\* text is not in it.
C19_ControlKeyBeforeText ==
    (AfterFrame /\ Len(frame[1].buffer) = 1
       /\ IsPressed(frame[1].buffer[1]) /\ IsControl(frame[1].buffer[1])) =>
        LET e == frame[1].buffer[1]
            token == is_control_key(e.logical_key)[1]
        IN  /\ Len(FrameEmitted) = 1
            /\ FrameEmitted[1] = <<"<">> \o Fragments \o token \o <<">">>
            /\ Some(FrameEmitted[1]) =
                  key_event_command(KeyEvent("Pressed", e.logical_key, None))
            /\ IsSpecialText(e) => ~Contains(FrameEmitted[1], TokenOf(
                  KeyEvent("Pressed", "Character", e.text)))

C19_Witness ==
    /\ AfterFrame
    /\ frame[1].buffer = <<KeyEvent("Pressed", "ArrowLeft", Some(<<" ">>))>>
    /\ ~ctrl /\ ~alt /\ ~logo
    /\ FrameEmitted = << <<"<", "L", "e", "f", "t", ">">> >>

====
